---------------------------- MODULE Spec2Model ----------------------------
(***************************************************************************)
(* Model of src/python/tester.py, the OilPriceAPI WebSocket tester.        *)
(*                                                                         *)
(* Numbers.  A JSON number is kept as an integer count of hundredths, so   *)
(* 80.5 is JNum(8050), the integer 7234 is JNum(723400) and 7234 / 100 is  *)
(* JNum(7234).  NaN is a value of its own (it is a float, and it differs   *)
(* from itself).  Timestamps are abstracted to the single token Now.       *)
(*                                                                         *)
(* Threads.  The main thread runs main(), run_websocket() and, inside      *)
(* WebSocketApp.run_forever(), the four callbacks.  The display thread     *)
(* runs display_loop().  There is no lock anywhere in the program.         *)
(***************************************************************************)
EXTENDS Integers, Sequences, FiniteSets, TLC

(***************************************************************************)
(* Program constants (tester.py:23-26)                                     *)
(***************************************************************************)
MAX_RECONNECT_ATTEMPTS == 5

RECONNECT_BASE_DELAY_SEC == 1

MAX_LOG_LINES == 8

(***************************************************************************)
(* Bounds of the model                                                     *)
(***************************************************************************)
\* run_websocket() invocations that may be on the call stack at once
MaxDepth == 7

\* frames delivered to on_message over one run of the program
MaxFrames == 1

\* price updates delivered to one connection when the merge is examined
MaxUpdates == 2

(***************************************************************************)
(* JSON values, as json.loads() produces them                              *)
(***************************************************************************)
JNull == [t |-> "null"]

JNaN == [t |-> "nan"]

JNum(h) == [t |-> "num", n |-> h]

JStr(s) == [t |-> "str", s |-> s]

\* a dict, as the sequence of its <<key, value>> pairs in insertion order
JObj(kv) == [t |-> "obj", kv |-> kv]

JArr(a) == [t |-> "arr", a |-> a]

\* the timestamp token written by datetime.now() / time.time()
Now == [t |-> "time"]

\* the result of an expression that raised an exception
Raise == [t |-> "raise"]

IsDict(v) == v.t = "obj"

\* isinstance(v, (int, float))
IsNumber(v) == v.t \in {"num", "nan"}

\* Python truthiness: bool(v)
Truthy(v) ==
    CASE v.t = "null" -> FALSE
      [] v.t = "num" -> v.n # 0
      [] v.t = "nan" -> TRUE
      [] v.t = "str" -> v.s # ""
      [] v.t = "obj" -> v.kv # <<>>
      [] v.t = "arr" -> v.a # <<>>
      [] OTHER -> TRUE

\* k in d
Has(d, k) == \E i \in DOMAIN d.kv : d.kv[i][1] = k

\* d.get(k, dflt); AttributeError when d is not a dict
GetOr(d, k, dflt) ==
    IF ~IsDict(d) THEN Raise
    ELSE IF Has(d, k) THEN d.kv[CHOOSE i \in DOMAIN d.kv : d.kv[i][1] = k][2]
    ELSE dflt

\* d.get(k)
Get(d, k) == GetOr(d, k, JNull)

\* a.get(k1, {}).get(k2)
Get2(d, k1, k2) ==
    LET g == GetOr(d, k1, JObj(<<>>))
    IN  IF g = Raise THEN Raise ELSE Get(g, k2)

\* cents / 100; TypeError when cents is not a number
Div100(c) ==
    CASE c.t = "num" -> JNum(c.n \div 100)
      [] c.t = "nan" -> JNaN
      [] OTHER -> Raise

(***************************************************************************)
(* extract_price_value, extract_change_percent (tester.py:133-167)         *)
(***************************************************************************)
\* lines 141-147 and 150-155: one price field, as a number or a Money dict;
\* JNull when the field resolves nothing and the caller goes on
price_field(price, key) ==
    LET f == Get(price, key)
    IN  IF IsNumber(f) THEN f
        ELSE IF IsDict(f)
             THEN LET cents == Get(f, "cents")
                  IN  IF cents # JNull THEN Div100(cents) ELSE JNull
             ELSE JNull

\* mutant: the normalized price is preferred to the original one
extract_price_value_normalized_first(price) ==
    IF ~Truthy(price) THEN JNull
    ELSE IF ~IsDict(price) THEN Raise
    ELSE LET norm == price_field(price, "normalized_price")
         IN  IF norm # JNull THEN norm
             ELSE price_field(price, "original_price")

extract_price_value(price) ==
    IF ~Truthy(price) THEN JNull
    ELSE IF ~IsDict(price) THEN Raise
    ELSE LET orig == price_field(price, "original_price")
         IN  IF orig # JNull THEN orig
             ELSE price_field(price, "normalized_price")

extract_change_percent(price) ==
    IF ~Truthy(price) THEN JNull
    ELSE IF ~IsDict(price) THEN Raise
    ELSE LET primary == Get(price, "change_24h_percent")
             change == IF Truthy(primary) THEN primary
                       ELSE Get(price, "change_percent")
         IN  IF IsNumber(change) /\ change.t # "nan" THEN change ELSE JNull

(***************************************************************************)
(* The market state store (tester.py:43-68)                                *)
(***************************************************************************)
Instruments == {"brent", "wti", "natgas_us", "natgas_uk"}

DrillingKeys ==
    {"rig_us", "rig_canada", "rig_intl", "frac_permian", "frac_eagle_ford",
     "frac_bakken", "duc_permian", "duc_eagle_ford", "duc_bakken"}

DrillingLabel ==
    [k \in DrillingKeys |->
        CASE k = "rig_us" -> "US Rig Count"
          [] k = "rig_canada" -> "Canada Rigs"
          [] k = "rig_intl" -> "Intl Rigs"
          [] k = "frac_permian" -> "Permian Frac"
          [] k = "frac_eagle_ford" -> "Eagle Ford Frac"
          [] k = "frac_bakken" -> "Bakken Frac"
          [] k = "duc_permian" -> "Permian DUC"
          [] k = "duc_eagle_ford" -> "Eagle Ford DUC"
          [] OTHER -> "Bakken DUC"]

InitPrices ==
    [i \in Instruments |-> [value |-> JNull, change |-> JNull, updated |-> JNull]]

InitDrilling ==
    [k \in DrillingKeys |-> [value |-> JNull, label |-> DrillingLabel[k]]]

InitWellPermits ==
    [summary |-> [total_7d |-> JNull, total_30d |-> JNull, active_states |-> JNull],
     top_states |-> <<>>,
     last_updated |-> JNull]

\* the three module-level dicts as one value; exc is set once a statement of
\* update_prices has raised, and the statements after it are then skipped
InitStore ==
    [prices |-> InitPrices, drilling |-> InitDrilling,
     well_permits |-> InitWellPermits, exc |-> FALSE]

(***************************************************************************)
(* update_prices (tester.py:170-254), one operator per assignment          *)
(***************************************************************************)
\* line 171
price_data(data) == GetOr(data, "prices", data)

\* mutant: the quote is assigned whether or not a value was resolved
InstrStmt_unguarded(st, data, group, key, name) ==
    LET p == Get2(price_data(data), group, key)
    IN  IF p = Raise THEN [st EXCEPT !.exc = TRUE]
        ELSE IF ~Truthy(p) THEN st
        ELSE LET val == extract_price_value(p)
             IN  IF val = Raise THEN [st EXCEPT !.exc = TRUE]
                 ELSE [st EXCEPT !.prices[name] =
                          [value |-> val,
                           change |-> extract_change_percent(p),
                           updated |-> Now]]

\* lines 174-181, 182-189, 190-197, 198-205
InstrStmt(st, data, group, key, name) ==
    LET p == Get2(price_data(data), group, key)
    IN  IF p = Raise THEN [st EXCEPT !.exc = TRUE]
        ELSE IF ~Truthy(p) THEN st
        ELSE LET val == extract_price_value(p)
             IN  IF val = Raise THEN [st EXCEPT !.exc = TRUE]
                 ELSE IF val = JNull THEN st
                 ELSE [st EXCEPT !.prices[name] =
                          [value |-> val,
                           change |-> extract_change_percent(p),
                           updated |-> Now]]

\* line 208
drilling_intelligence(data) == GetOr(data, "drilling_intelligence", JObj(<<>>))

\* lines 211-218, 221-228, 231-238: one sub-metric of one group
DrillStmt(st, data, group, sub, name) ==
    LET di == drilling_intelligence(data)
    IN  IF ~Truthy(di) THEN st
        ELSE LET g == Get(di, group)
             IN  IF g = Raise THEN [st EXCEPT !.exc = TRUE]
                 ELSE IF ~Truthy(g) THEN st
                 ELSE LET v == Get2(g, sub, "value")
                      IN  IF v = Raise THEN [st EXCEPT !.exc = TRUE]
                          ELSE IF v = JNull THEN st
                          ELSE [st EXCEPT !.drilling[name].value = v]

\* line 241: di.get("well_permits") when di is truthy, else nothing
well_permits_block(data) ==
    LET di == drilling_intelligence(data)
    IN  IF ~Truthy(di) THEN JNull ELSE Get(di, "well_permits")

\* lines 243-248
SummaryStmt(st, data) ==
    LET wp == well_permits_block(data)
    IN  IF wp = Raise THEN [st EXCEPT !.exc = TRUE]
        ELSE IF ~Truthy(wp) THEN st
        ELSE LET s == Get(wp, "summary")
             IN  IF s = Raise THEN [st EXCEPT !.exc = TRUE]
                 ELSE IF ~Truthy(s) THEN st
                 ELSE IF ~IsDict(s) THEN [st EXCEPT !.exc = TRUE]
                 ELSE [st EXCEPT !.well_permits.summary =
                          [total_7d |-> Get(s, "total_permits_7d"),
                           total_30d |-> Get(s, "total_permits_30d"),
                           active_states |-> Get(s, "active_states")]]

\* line 251: (state, data.get("count_7d", 0) if data else 0)
state_count(d) == IF ~Truthy(d) THEN JNum(0) ELSE GetOr(d, "count_7d", JNum(0))

\* line 252: list.sort(key = count, reverse = True) is stable: an entry is
\* placed after every entry already there whose count is at least its own
RECURSIVE insert_desc(_, _)
insert_desc(x, sorted) ==
    IF sorted = <<>> THEN <<x>>
    ELSE IF Head(sorted)[2].n >= x[2].n
         THEN <<Head(sorted)>> \o insert_desc(x, Tail(sorted))
         ELSE <<x>> \o sorted

RECURSIVE sort_desc(_)
sort_desc(states) ==
    IF states = <<>> THEN <<>>
    ELSE insert_desc(states[Len(states)], sort_desc(SubSeq(states, 1, Len(states) - 1)))

\* mutant: the states of the block are added to the list already there
StatesStmt_appending(st, data) ==
    LET wp == well_permits_block(data)
    IN  IF wp = Raise \/ st.exc THEN [st EXCEPT !.exc = TRUE]
        ELSE IF ~Truthy(wp) THEN st
        ELSE LET b == Get(wp, "by_state")
             IN  IF ~Truthy(b) THEN st
                 ELSE IF ~IsDict(b) THEN [st EXCEPT !.exc = TRUE]
                 ELSE LET states == [i \in DOMAIN b.kv |->
                                        <<b.kv[i][1], state_count(b.kv[i][2])>>]
                      IN  IF \E i \in DOMAIN states : states[i][2] = Raise
                             THEN [st EXCEPT !.exc = TRUE]
                          ELSE IF Len(states) > 1
                                  /\ \E i \in DOMAIN states : states[i][2].t # "num"
                             THEN [st EXCEPT !.exc = TRUE]
                          ELSE [st EXCEPT !.well_permits.top_states =
                                   @ \o (IF Len(states) > 1 THEN sort_desc(states)
                                         ELSE states)]

\* lines 249-253; the counts of the payloads modelled are integers, and a
\* count that is not a number does not order against the others (TypeError)
StatesStmt(st, data) ==
    LET wp == well_permits_block(data)
    IN  IF wp = Raise \/ st.exc THEN [st EXCEPT !.exc = TRUE]
        ELSE IF ~Truthy(wp) THEN st
        ELSE LET b == Get(wp, "by_state")
             IN  IF ~Truthy(b) THEN st
                 ELSE IF ~IsDict(b) THEN [st EXCEPT !.exc = TRUE]
                 ELSE LET states == [i \in DOMAIN b.kv |->
                                        <<b.kv[i][1], state_count(b.kv[i][2])>>]
                      IN  IF \E i \in DOMAIN states : states[i][2] = Raise
                             THEN [st EXCEPT !.exc = TRUE]
                          ELSE IF Len(states) > 1
                                  /\ \E i \in DOMAIN states : states[i][2].t # "num"
                             THEN [st EXCEPT !.exc = TRUE]
                          ELSE [st EXCEPT !.well_permits.top_states =
                                   IF Len(states) > 1 THEN sort_desc(states)
                                   ELSE states]

\* line 254
StampStmt(st, data) ==
    LET wp == well_permits_block(data)
    IN  IF wp = Raise THEN [st EXCEPT !.exc = TRUE]
        ELSE IF ~Truthy(wp) THEN st
        ELSE [st EXCEPT !.well_permits.last_updated = GetOr(wp, "last_updated", Now)]

\* the assignments of update_prices in program order
NStmts == 16

Stmt(k, st, data) ==
    IF st.exc THEN st
    ELSE CASE k = 1 -> InstrStmt(st, data, "oil", "brent", "brent")
           [] k = 2 -> InstrStmt(st, data, "oil", "wti", "wti")
           [] k = 3 -> InstrStmt(st, data, "natural_gas", "us", "natgas_us")
           [] k = 4 -> InstrStmt(st, data, "natural_gas", "uk", "natgas_uk")
           [] k = 5 -> DrillStmt(st, data, "rig_counts", "us_rigs", "rig_us")
           [] k = 6 -> DrillStmt(st, data, "rig_counts", "canada_rigs", "rig_canada")
           [] k = 7 -> DrillStmt(st, data, "rig_counts", "international_rigs", "rig_intl")
           [] k = 8 -> DrillStmt(st, data, "frac_spreads", "permian", "frac_permian")
           [] k = 9 -> DrillStmt(st, data, "frac_spreads", "eagle_ford", "frac_eagle_ford")
           [] k = 10 -> DrillStmt(st, data, "frac_spreads", "bakken", "frac_bakken")
           [] k = 11 -> DrillStmt(st, data, "duc_wells", "permian", "duc_permian")
           [] k = 12 -> DrillStmt(st, data, "duc_wells", "eagle_ford", "duc_eagle_ford")
           [] k = 13 -> DrillStmt(st, data, "duc_wells", "bakken", "duc_bakken")
           [] k = 14 -> SummaryStmt(st, data)
           [] k = 15 -> StatesStmt(st, data)
           [] OTHER -> StampStmt(st, data)

\* statements from..NStmts applied in order, each to the store the one before
\* it has left (s, computed once)
RECURSIVE run_stmts(_, _, _)
run_stmts(from, st, data) ==
    IF from > NStmts THEN st
    ELSE CHOOSE r \in {run_stmts(from + 1, s, data) : s \in {Stmt(from, st, data)}} : TRUE

\* the whole call update_prices(data), starting with no exception pending
update_prices(st, data) == run_stmts(1, [st EXCEPT !.exc = FALSE], data)

(***************************************************************************)
(* on_message (tester.py:436-499) as a function of the state it reads      *)
(***************************************************************************)
\* a raw text frame: its length and what json.loads makes of it
Malformed == [t |-> "malformed"]

Frame(len, body) == [len |-> len, body |-> body]

LogEntry(msg, level) == <<msg, level>>

\* c = [store, message_count, bytes_received, ping_count, last_ping_time];
\* the result adds the log entries appended and whether an exception left
\* the handler (anything but json.JSONDecodeError raised outside the inner
\* try blocks)
Handled(c, log) == [c EXCEPT !.logged = log, !.escaped = FALSE]

Escaped(c) == [c EXCEPT !.logged = <<>>, !.escaped = TRUE]

\* lines 444-452
on_ping(c, a) ==
    Handled([c EXCEPT !.ping_count = @ + 1, !.last_ping_time = Now],
            (IF c.last_ping_time # JNull /\ a.verbose
                THEN <<LogEntry("Ping received", "info")>> ELSE <<>>)
            \o (IF a.pings THEN <<LogEntry("Ping", "info")>> ELSE <<>>))

\* lines 456-467
on_welcome(c, a, msg) ==
    LET d == Get(msg, "data")
        welcome_data == IF Truthy(d) THEN d ELSE JObj(<<>>)
        has_prices == IsDict(welcome_data) /\ Truthy(Get(welcome_data, "prices"))
        st == IF has_prices THEN update_prices(c.store, welcome_data) ELSE c.store
    IN  Handled([c EXCEPT !.store = st],
                <<LogEntry("Server welcomed connection", "info")>>
                \o (IF ~has_prices THEN <<>>
                    ELSE IF ~st.exc THEN <<LogEntry("Initial prices received", "price")>>
                    ELSE IF a.verbose
                         THEN <<LogEntry("Error processing welcome data", "error")>>
                         ELSE <<>>))

\* line 484, for m = msg["message"], a dict
msg_data(m) == IF Truthy(Get(m, "data")) THEN Get(m, "data") ELSE JObj(<<>>)

\* line 485: whether update_prices is called at all
data_wanted(m) ==
    \/ Truthy(Get(m, "prices"))
    \/ (IsDict(msg_data(m)) /\ Truthy(Get(msg_data(m), "prices")))

\* line 486: the argument of update_prices; msg_data.get("prices") raises
\* when msg_data is no dict
data_payload(m) ==
    IF ~IsDict(msg_data(m)) THEN Raise
    ELSE IF Truthy(Get(msg_data(m), "prices")) THEN msg_data(m)
    ELSE m

\* lines 488-494: the entries logged once the merge is over
data_log(a, st) ==
    (IF st.exc /\ a.verbose
        THEN <<LogEntry("Error processing prices", "error")>> ELSE <<>>)
    \o <<LogEntry("Price update received", "price")>>

\* lines 479-494
on_data(c, a, msg) ==
    LET m == Get(msg, "message")
    IN  IF ~IsDict(m) THEN Escaped(c)
        ELSE LET st == IF ~data_wanted(m) THEN c.store
                       ELSE IF data_payload(m) = Raise THEN [c.store EXCEPT !.exc = TRUE]
                       ELSE update_prices(c.store, data_payload(m))
             IN  Handled([c EXCEPT !.store = st], data_log(a, st))

\* mutant: the frame that does not parse is counted as a message
on_decode_error_counted(c, a) ==
    Handled([c EXCEPT !.message_count = @ + 1],
            <<LogEntry("Failed to parse message", "error")>>
            \o (IF a.verbose THEN <<LogEntry("Raw", "warn")>> ELSE <<>>))

\* lines 496-499: json.loads raised json.JSONDecodeError
on_decode_error(c, a) ==
    Handled(c, <<LogEntry("Failed to parse message", "error")>>
               \o (IF a.verbose THEN <<LogEntry("Raw", "warn")>> ELSE <<>>))

\* mutant: the rejection leaves no trace in the log
on_reject_silent(c) == Handled(c, <<>>)

\* lines 474-477
on_reject(c) ==
    Handled(c, <<LogEntry("Subscription REJECTED", "error"),
                 LogEntry("WebSocket requires Reservoir Mastery tier", "warn")>>)

on_message(c0, a, frame) ==
    LET c == [c0 EXCEPT !.bytes_received = @ + frame.len,
                        !.store = [@ EXCEPT !.exc = FALSE]]
        msg == frame.body
        counted == [c EXCEPT !.message_count = @ + 1]
    IN  IF msg = Malformed
           THEN on_decode_error(c, a)
        ELSE IF ~IsDict(msg) THEN Escaped(c)
        ELSE IF Get(msg, "type") = JStr("ping") THEN on_ping(c, a)
        ELSE IF Get(msg, "type") = JStr("welcome") THEN on_welcome(counted, a, msg)
        ELSE IF Get(msg, "type") = JStr("confirm_subscription")
           THEN Handled(counted, <<LogEntry("Subscribed", "info"),
                                   LogEntry("Waiting for price updates", "info")>>)
        ELSE IF Get(msg, "type") = JStr("reject_subscription")
           THEN on_reject(counted)
        ELSE IF Has(msg, "message") THEN on_data(counted, a, msg)
        ELSE Handled(counted, <<>>)

(***************************************************************************)
(* State                                                                   *)
(***************************************************************************)
VARIABLES
    \* main thread: where it is, and the run_websocket() calls on its stack
    pc, depth,
    \* sockets created by run_forever() and not yet closed; whether the
    \* innermost one has completed its handshake; subscribe commands sent on it
    open_sockets, handshaken, subscribes,
    \* KeyboardInterrupt: delivered yet; the run_forever() frame that caught it
    \* and re-raises it once its teardown has returned (0: none)
    cancelled, kbi_depth,
    \* module globals (tester.py:29-40)
    reconnect_attempts, connection_start_time, connection_status,
    message_count, bytes_received, ping_count, last_ping_time,
    display_running, args,
    \* prices, drilling and well_permits (tester.py:43-68)
    store,
    \* what the last step appended to log_entries; whether an exception left
    \* the last message handler
    logged, escaped,
    \* process outcome: exit status, export_log() calls, final stats printed
    exit_status, exports, final_stats,
    \* history: the frames delivered to on_message so far
    received,
    \* history: backoff delays and abnormal closes since the last on_open (or
    \* since start); the delay being slept; whether a close with code 1000 has
    \* been processed; whether run_websocket() was entered after the
    \* KeyboardInterrupt
    delays, fails, sleep_delay, closed_normally, retried_after_cancel,
    \* main thread inside on_message, statement by statement: where it is,
    \* the argument of update_prices and the next assignment to run
    net_pc, upd_data, upd_k,
    \* display thread inside render_display: where it is, what it has read
    \* so far, and how many renders it has finished
    rd_pc, snap, renders,
    \* history: the shared state as it was when the handler now running
    \* began, and the values it had between handlers since the current render
    \* began
    pre, cuts

ctlVars == <<pc, depth, open_sockets, handshaken, subscribes, cancelled, kbi_depth>>

sessVars == <<reconnect_attempts, connection_start_time, connection_status>>

cntVars == <<message_count, bytes_received, ping_count, last_ping_time, received>>

outVars == <<exit_status, exports, final_stats, display_running>>

histVars == <<delays, fails, sleep_delay, closed_normally, retried_after_cancel>>

netVars == <<net_pc, upd_data, upd_k, pre>>

rndVars == <<rd_pc, snap, renders, cuts>>

\* left alone by every step that runs a handler as a whole
thrVars == <<netVars, rndVars>>

vars == <<ctlVars, sessVars, cntVars, outVars, histVars, args, store, logged, escaped,
          thrVars>>

\* close_status_code when the connection ended without a close frame (None)
NoCode == 0

CloseCodes == {1000, 1001, 1006, NoCode}

\* command lines: no option; --export; --scroll; --export --verbose --pings --all
ArgsSet ==
    {[export |-> FALSE, verbose |-> FALSE, pings |-> FALSE, scroll |-> FALSE, all |-> FALSE],
     [export |-> TRUE, verbose |-> FALSE, pings |-> FALSE, scroll |-> FALSE, all |-> FALSE],
     [export |-> FALSE, verbose |-> FALSE, pings |-> FALSE, scroll |-> TRUE, all |-> FALSE],
     [export |-> TRUE, verbose |-> TRUE, pings |-> TRUE, scroll |-> FALSE, all |-> TRUE]}

Init ==
    /\ pc = "start" /\ depth = 0
    /\ open_sockets = 0 /\ handshaken = FALSE /\ subscribes = 0
    /\ cancelled = FALSE /\ kbi_depth = 0
    /\ reconnect_attempts = 0
    /\ connection_start_time = JNull
    /\ connection_status = "disconnected"
    /\ message_count = 0 /\ bytes_received = 0 /\ ping_count = 0
    /\ last_ping_time = JNull
    /\ display_running = FALSE
    /\ args \in ArgsSet
    /\ store = InitStore
    /\ logged = <<>> /\ escaped = FALSE
    /\ exit_status = "running" /\ exports = 0 /\ final_stats = 0
    /\ received = <<>>
    /\ delays = <<>> /\ fails = 0 /\ sleep_delay = 0
    /\ closed_normally = FALSE /\ retried_after_cancel = FALSE
    /\ net_pc = "idle" /\ upd_data = JNull /\ upd_k = 0 /\ pre = JNull
    /\ rd_pc = "sleep" /\ snap = JNull /\ renders = 0 /\ cuts = {}

(***************************************************************************)
(* run_websocket, on_open, on_error, on_close, handle_reconnect            *)
(***************************************************************************)
\* 2 ** n
RECURSIVE Pow2(_)
Pow2(n) == IF n = 0 THEN 1 ELSE 2 * Pow2(n - 1)

\* mutant: the exponent taken from the incremented counter
backoff_delay_from_incremented(attempts) == RECONNECT_BASE_DELAY_SEC * Pow2(attempts)

\* line 547, with reconnect_attempts already incremented
backoff_delay(attempts) == RECONNECT_BASE_DELAY_SEC * Pow2(attempts - 1)

\* mutant: no budget, every abnormal close retries
budget_unlimited(attempts) == FALSE

\* mutant: the budget test off by one
budget_exhausted_late(attempts) == attempts > MAX_RECONNECT_ATTEMPTS

\* line 539
budget_exhausted(attempts) == attempts >= MAX_RECONNECT_ATTEMPTS

\* mutant: every close reconnects
wants_reconnect_always(code) == TRUE

\* mutant: a close without a code is not taken for a failure
wants_reconnect_coded(code) == code \notin {1000, NoCode}

\* line 532
wants_reconnect(code) == code # 1000

\* lines 554-575, up to the point where run_forever() blocks on the socket
run_websocket(prelog) ==
    /\ depth < MaxDepth
    /\ pc' = "run_forever"
    /\ depth' = depth + 1
    /\ open_sockets' = open_sockets + 1
    /\ handshaken' = FALSE
    /\ subscribes' = 0
    /\ connection_status' = "connecting"
    /\ logged' = prelog \o <<LogEntry("Connecting", "info")>>
                 \o (IF args.verbose
                        THEN <<LogEntry("Protocol", "info"), LogEntry("Python", "info")>>
                        ELSE <<>>)
    /\ retried_after_cancel' = (retried_after_cancel \/ cancelled)
    /\ UNCHANGED <<cancelled, kbi_depth, reconnect_attempts, connection_start_time>>

\* lines 391-397
stop_display == display_running' = FALSE

\* lines 536-551, up to time.sleep(delay) or to sys.exit(1) raising SystemExit
handle_reconnect(prelog) ==
    IF budget_exhausted(reconnect_attempts)
    THEN /\ stop_display
         /\ exports' = IF args.export THEN exports + 1 ELSE exports
         /\ pc' = "exiting"
         /\ logged' = prelog \o <<LogEntry("Max reconnection attempts reached", "error")>>
         /\ UNCHANGED <<reconnect_attempts, delays, sleep_delay, final_stats, exit_status>>
    ELSE /\ reconnect_attempts' = reconnect_attempts + 1
         /\ sleep_delay' = backoff_delay(reconnect_attempts')
         /\ delays' = Append(delays, sleep_delay')
         /\ pc' = "sleep"
         /\ logged' = prelog \o <<LogEntry("Reconnecting", "info")>>
         /\ UNCHANGED outVars

\* mutant: the close does not set the status
on_close_keeps_status(code) ==
    LET entries == <<LogEntry("Connection closed", IF code = 1000 THEN "info" ELSE "error")>>
                   \o (IF code \in {4001, 4003, 1006}
                          THEN <<LogEntry("Check API key and tier level", "warn")>>
                          ELSE <<>>)
    IN  /\ UNCHANGED connection_status
        /\ closed_normally' = (closed_normally \/ code = 1000)
        /\ fails' = IF code = 1000 THEN fails ELSE fails + 1
        /\ IF wants_reconnect(code)
           THEN handle_reconnect(entries)
           ELSE /\ pc' = "returning"
                /\ logged' = entries
                /\ UNCHANGED <<reconnect_attempts, delays, sleep_delay, outVars>>

\* lines 522-533, entered from the teardown of the innermost connection
on_close(code) ==
    LET entries == <<LogEntry("Connection closed", IF code = 1000 THEN "info" ELSE "error")>>
                   \o (IF code \in {4001, 4003, 1006}
                          THEN <<LogEntry("Check API key and tier level", "warn")>>
                          ELSE <<>>)
    IN  /\ connection_status' = "disconnected"
        /\ closed_normally' = (closed_normally \/ code = 1000)
        /\ fails' = IF code = 1000 THEN fails ELSE fails + 1
        /\ IF wants_reconnect(code)
           THEN handle_reconnect(entries)
           ELSE /\ pc' = "returning"
                /\ logged' = entries
                /\ UNCHANGED <<reconnect_attempts, delays, sleep_delay, outVars>>

\* mutant: on_close is entered with the socket still open
Teardown_socket_left_open(code) ==
    /\ UNCHANGED thrVars
    /\ UNCHANGED open_sockets
    /\ handshaken' = FALSE
    /\ on_close(code)
    /\ UNCHANGED <<depth, subscribes, cancelled, kbi_depth, connection_start_time,
                   cntVars, args, store, escaped, retried_after_cancel>>

\* run_forever() tears the connection down: the socket is closed, then the
\* on_close callback registered at line 569 runs
Teardown(code) ==
    /\ UNCHANGED thrVars
    /\ open_sockets' = open_sockets - 1
    /\ handshaken' = FALSE
    /\ on_close(code)
    /\ UNCHANGED <<depth, subscribes, cancelled, kbi_depth, connection_start_time,
                   cntVars, args, store, escaped, retried_after_cancel>>

\* mutant: the counter is not reset
on_open_keeps_attempts ==
    /\ UNCHANGED reconnect_attempts
    /\ connection_start_time' = Now
    /\ connection_status' = "connected"
    /\ logged' = <<LogEntry("Connected!", "info"), LogEntry("Subscribing", "info")>>
    /\ subscribes' = subscribes + 1

\* lines 502-515
on_open ==
    /\ reconnect_attempts' = 0
    /\ connection_start_time' = Now
    /\ connection_status' = "connected"
    /\ logged' = <<LogEntry("Connected!", "info"), LogEntry("Subscribing", "info")>>
    /\ subscribes' = subscribes + 1

\* lines 518-519
on_error == logged' = <<LogEntry("Error", "error")>>

(***************************************************************************)
(* Steps of the main thread                                                *)
(***************************************************************************)
\* main, lines 622-624: start_display() (lines 379-388), then run_websocket()
MainStart ==
    /\ UNCHANGED thrVars
    /\ pc = "start"
    /\ display_running' = ~args.scroll
    /\ run_websocket(<<>>)
    /\ UNCHANGED <<cntVars, args, store, escaped, exit_status, exports, final_stats,
                   delays, fails, sleep_delay, closed_normally>>

\* the handshake completes and run_forever() calls on_open
Opened ==
    /\ UNCHANGED thrVars
    /\ pc = "run_forever" /\ ~handshaken
    /\ handshaken' = TRUE
    /\ on_open
    /\ delays' = <<>> /\ fails' = 0
    /\ UNCHANGED <<pc, depth, open_sockets, cancelled, kbi_depth, cntVars, outVars,
                   sleep_delay, closed_normally, retried_after_cancel,
                   args, store, escaped>>

\* a text frame arrives and run_forever() calls on_message; an exception
\* that leaves on_message is caught by the library, which calls on_error
ReceivedUpTo(frame, limit) ==
    /\ UNCHANGED thrVars
    /\ pc = "run_forever" /\ handshaken
    /\ Len(received) < limit
    /\ received' = Append(received, frame)
    /\ \E r \in {on_message([store |-> store, message_count |-> message_count,
                             bytes_received |-> bytes_received,
                             ping_count |-> ping_count,
                             last_ping_time |-> last_ping_time,
                             logged |-> <<>>, escaped |-> FALSE], args, frame)} :
           /\ store' = r.store
           /\ message_count' = r.message_count
           /\ bytes_received' = r.bytes_received
           /\ ping_count' = r.ping_count
           /\ last_ping_time' = r.last_ping_time
           /\ escaped' = r.escaped
           /\ IF r.escaped THEN on_error ELSE logged' = r.logged
    /\ UNCHANGED <<ctlVars, sessVars, outVars, histVars, args>>

Received(frame) == ReceivedUpTo(frame, MaxFrames)

\* the server's close frame arrives: teardown, then on_close(code)
ServerClose(code) ==
    /\ pc = "run_forever" /\ handshaken
    /\ Teardown(code)

\* the socket fails, before or after the handshake: run_forever() calls
\* on_error and goes on to tear the connection down
TransportError ==
    /\ UNCHANGED thrVars
    /\ pc = "run_forever"
    /\ pc' = "errored"
    /\ on_error
    /\ UNCHANGED <<depth, open_sockets, handshaken, subscribes, cancelled, kbi_depth,
                   sessVars, cntVars, outVars, histVars, args, store, escaped>>

\* ... the teardown after on_error: no close frame was received
ErrorTeardown ==
    /\ pc = "errored"
    /\ Teardown(NoCode)

\* handle_reconnect, line 550-551: the sleep ends and run_websocket() is called
BackoffWake ==
    /\ UNCHANGED thrVars
    /\ pc = "sleep"
    /\ run_websocket(<<>>)
    /\ UNCHANGED <<cntVars, outVars, args, store, escaped,
                   delays, fails, sleep_delay, closed_normally>>

\* on_close returned without reconnecting: the innermost run_websocket()
\* returns into the handle_reconnect() that called it.  When the frame it
\* returns into is the one that caught the KeyboardInterrupt, that frame's
\* teardown is now over and it re-raises
Return ==
    /\ UNCHANGED thrVars
    /\ pc = "returning" /\ depth >= 1
    /\ IF depth >= 2 /\ kbi_depth = depth - 1
       THEN pc' = "raising" /\ depth' = depth - 2 /\ kbi_depth' = 0
       ELSE pc' = "returning" /\ depth' = depth - 1 /\ UNCHANGED kbi_depth
    /\ logged' = <<>>
    /\ UNCHANGED <<open_sockets, handshaken, subscribes, cancelled, sessVars, cntVars,
                   outVars, histVars, args, store, escaped>>

\* main, line 624 returns and main() ends: exit status 0
MainReturn ==
    /\ UNCHANGED thrVars
    /\ pc = "returning" /\ depth = 0
    /\ pc' = "done"
    /\ exit_status' = "0"
    /\ logged' = <<>>
    /\ UNCHANGED <<depth, open_sockets, handshaken, subscribes, cancelled, kbi_depth,
                   sessVars, cntVars, exports, final_stats, display_running,
                   histVars, args, store, escaped>>

\* Ctrl+C: KeyboardInterrupt is raised in the main thread.  Inside
\* run_forever() the library catches it, calls on_error, tears the connection
\* down (on_close included) and only then re-raises; inside time.sleep() it
\* leaves on_close and handle_reconnect at once
Cancel ==
    /\ UNCHANGED thrVars
    /\ ~cancelled
    /\ cancelled' = TRUE
    /\ \/ /\ pc = "run_forever"
          /\ pc' = "errored"
          /\ kbi_depth' = depth
          /\ on_error
       \/ /\ pc = "sleep"
          /\ pc' = "raising"
          /\ logged' = <<>>
          /\ UNCHANGED kbi_depth
    /\ UNCHANGED <<depth, open_sockets, handshaken, subscribes,
                   sessVars, cntVars, outVars, histVars, args, store, escaped>>

\* the KeyboardInterrupt, or the SystemExit of sys.exit(1), passes through an
\* enclosing run_forever() whose connection is already torn down: on_error
\* is called and the exception is re-raised
Propagate ==
    /\ UNCHANGED thrVars
    /\ pc \in {"raising", "exiting"} /\ depth >= 1
    /\ depth' = depth - 1
    /\ on_error
    /\ UNCHANGED <<pc, open_sockets, handshaken, subscribes, cancelled, kbi_depth,
                   sessVars, cntVars, outVars, histVars, args, store, escaped>>

\* main, lines 625-633
MainInterrupt ==
    /\ UNCHANGED thrVars
    /\ pc = "raising" /\ depth = 0
    /\ pc' = "interrupted"
    /\ stop_display
    /\ final_stats' = IF connection_start_time # JNull THEN final_stats + 1 ELSE final_stats
    /\ exports' = IF args.export THEN exports + 1 ELSE exports
    /\ exit_status' = "0"
    /\ logged' = <<>>
    /\ UNCHANGED <<depth, open_sockets, handshaken, subscribes, cancelled, kbi_depth,
                   sessVars, cntVars, histVars, args, store, escaped>>

\* SystemExit reaches the top of the main thread (main catches only
\* KeyboardInterrupt, line 625): the process ends with status 1
ProcessExit ==
    /\ UNCHANGED thrVars
    /\ pc = "exiting" /\ depth = 0
    /\ pc' = "exited"
    /\ exit_status' = "1"
    /\ logged' = <<>>
    /\ UNCHANGED <<depth, open_sockets, handshaken, subscribes, cancelled, kbi_depth,
                   sessVars, cntVars, exports, final_stats, display_running,
                   histVars, args, store, escaped>>

(***************************************************************************)
(* Frames of a session                                                     *)
(***************************************************************************)
\* {k: v}
O(k, v) == JObj(<< <<k, v>> >>)

PingFrame == Frame(36, JObj(<< <<"type", JStr("ping")>>, <<"message", JNum(170000)>> >>))

WelcomeFrame ==
    Frame(84, JObj(<< <<"type", JStr("welcome")>>,
                      <<"data", O("prices", O("oil", O("brent",
                                  O("original_price", JNum(8050)))))>> >>))

UpdateFrame ==
    Frame(72, O("message", O("prices", O("oil", O("wti",
                O("original_price", O("cents", JNum(701000))))))))

ConfirmFrame == Frame(31, O("type", JStr("confirm_subscription")))

RejectFrame == Frame(30, O("type", JStr("reject_subscription")))

MalformedFrame == Frame(9, Malformed)

ArrayFrame == Frame(2, JArr(<<>>))

SessionFrames ==
    {PingFrame, WelcomeFrame, UpdateFrame, ConfirmFrame, RejectFrame,
     MalformedFrame, ArrayFrame}

Next ==
    \/ MainStart
    \/ Opened
    \/ \E f \in SessionFrames : Received(f)
    \/ \E code \in CloseCodes : ServerClose(code)
    \/ TransportError
    \/ ErrorTeardown
    \/ BackoffWake
    \/ Return
    \/ MainReturn
    \/ Cancel
    \/ Propagate
    \/ MainInterrupt
    \/ ProcessExit

Spec == Init /\ [][Next]_vars

(***************************************************************************)
(* The merge on its own: one open connection receiving price updates       *)
(***************************************************************************)
\* what an update may carry for one instrument: nothing, a price with no
\* change, a price with a change, a Money price with a NaN change, a change
\* and no price
NoPrice == [t |-> "absent"]

PriceOptions ==
    {NoPrice,
     O("original_price", JNum(8000)),
     JObj(<< <<"original_price", JNum(7000)>>, <<"change_24h_percent", JNum(150)>> >>),
     JObj(<< <<"original_price", O("cents", JNum(723400))>>,
             <<"change_24h_percent", JNaN>> >>),
     O("change_24h_percent", JNum(250))}

\* a normalized price with the legacy change key
LegacyPrice ==
    JObj(<< <<"normalized_price", JNum(310)>>, <<"change_percent", JNum(-50)>> >>)

\* {k1: v1, k2: v2} without the keys that carry nothing
Pair(k1, v1, k2, v2) ==
    JObj((IF v1 = NoPrice THEN <<>> ELSE << <<k1, v1>> >>)
         \o (IF v2 = NoPrice THEN <<>> ELSE << <<k2, v2>> >>))

\* {"message": {"prices": {"oil": {...}}}}: a streamed update for the two oils
OilUpdate(brent, wti) ==
    Frame(120, O("message", O("prices", O("oil", Pair("brent", brent, "wti", wti)))))

\* a streamed update for the two gases, nested under data as in a welcome
GasUpdate(us, uk) ==
    Frame(120, O("message", O("data", O("prices",
                 O("natural_gas", Pair("us", us, "uk", uk))))))

MergeFrames ==
    {OilUpdate(b, w) : b \in PriceOptions, w \in PriceOptions}
    \cup {GasUpdate(LegacyPrice, x) : x \in PriceOptions}

\* the state main reaches with on_open done on the first connection
MergeInit ==
    /\ pc = "run_forever" /\ depth = 1
    /\ open_sockets = 1 /\ handshaken = TRUE /\ subscribes = 1
    /\ cancelled = FALSE /\ kbi_depth = 0
    /\ reconnect_attempts = 0
    /\ connection_start_time = Now
    /\ connection_status = "connected"
    /\ message_count = 0 /\ bytes_received = 0 /\ ping_count = 0
    /\ last_ping_time = JNull
    /\ args \in {a \in ArgsSet : ~a.scroll /\ a.export = a.verbose}
    /\ display_running = ~args.scroll
    /\ store = InitStore
    /\ logged = <<LogEntry("Connected!", "info"), LogEntry("Subscribing", "info")>>
    /\ escaped = FALSE
    /\ exit_status = "running" /\ exports = 0 /\ final_stats = 0
    /\ received = <<>>
    /\ delays = <<>> /\ fails = 0 /\ sleep_delay = 0
    /\ closed_normally = FALSE /\ retried_after_cancel = FALSE
    /\ net_pc = "idle" /\ upd_data = JNull /\ upd_k = 0 /\ pre = JNull
    /\ rd_pc = "sleep" /\ snap = JNull /\ renders = 0 /\ cuts = {}

MergeNext == \E f \in MergeFrames : ReceivedUpTo(f, MaxUpdates)

SpecMerge == MergeInit /\ [][MergeNext]_vars

(***************************************************************************)
(* The two threads statement by statement: on_message merging a streamed   *)
(* update while render_display reads the shared state                      *)
(***************************************************************************)
\* renders of the display thread
MaxRenders == 2

\* streamed updates delivered while the display is watched
MaxRenderFrames == 1

\* what render_display reads of the module state
SharedView ==
    [prices |-> store.prices, drilling |-> store.drilling,
     well_permits |-> store.well_permits,
     counters |-> [connection_start_time |-> connection_start_time,
                   connection_status |-> connection_status,
                   message_count |-> message_count,
                   bytes_received |-> bytes_received,
                   ping_count |-> ping_count]]

\* a streamed update with prices, a drilling metric and the well permits
FullUpdate ==
    Frame(300, O("message", JObj(<<
        <<"prices", O("oil", O("brent", O("original_price", JNum(8000))))>>,
        <<"drilling_intelligence", JObj(<<
            <<"rig_counts", O("us_rigs", O("value", JNum(58000)))>>,
            <<"well_permits", JObj(<<
                <<"summary", JObj(<< <<"total_permits_7d", JNum(12000)>>,
                                     <<"total_permits_30d", JNum(48000)>>,
                                     <<"active_states", JNum(200)>> >>)>>,
                <<"by_state", JObj(<< <<"ND", O("count_7d", JNum(4000))>>,
                                      <<"TX", O("count_7d", JNum(8000))>> >>)>> >>)>> >>)>> >>)))

RenderFrames ==
    {OilUpdate(O("original_price", JNum(8000)),
               JObj(<< <<"original_price", JNum(7000)>>,
                       <<"change_24h_percent", JNum(150)>> >>)),
     FullUpdate}

\* on_message, line 439
NetBegin(frame) ==
    /\ net_pc = "idle"
    /\ pc = "run_forever" /\ handshaken
    /\ Len(received) < MaxRenderFrames
    /\ received' = Append(received, frame)
    /\ bytes_received' = bytes_received + frame.len
    /\ pre' = SharedView
    /\ net_pc' = "counting"
    /\ UNCHANGED <<ctlVars, sessVars, outVars, histVars, args, store, logged, escaped,
                   message_count, ping_count, last_ping_time, upd_data, upd_k, rndVars>>

\* on_message, lines 442-486 for a frame with a message field that is a
\* dict: message_count += 1, then update_prices is entered or passed over
NetCount ==
    /\ net_pc = "counting"
    /\ message_count' = message_count + 1
    /\ LET m == Get(received[Len(received)].body, "message")
       IN  IF data_wanted(m) /\ data_payload(m) # Raise
           THEN /\ net_pc' = "merging"
                /\ upd_data' = data_payload(m)
                /\ upd_k' = 1
                /\ store' = [store EXCEPT !.exc = FALSE]
           ELSE /\ net_pc' = "logging"
                /\ store' = [store EXCEPT !.exc = data_wanted(m)]
                /\ UNCHANGED <<upd_data, upd_k>>
    /\ UNCHANGED <<ctlVars, sessVars, outVars, histVars, args, logged, escaped,
                   bytes_received, ping_count, last_ping_time, received, pre, rndVars>>

\* update_prices: its next assignment
NetStmt ==
    /\ net_pc = "merging"
    /\ store' = Stmt(upd_k, store, upd_data)
    /\ IF upd_k < NStmts
       THEN upd_k' = upd_k + 1 /\ UNCHANGED net_pc
       ELSE upd_k' = 0 /\ net_pc' = "logging"
    /\ UNCHANGED <<ctlVars, sessVars, cntVars, outVars, histVars, args, logged, escaped,
                   upd_data, pre, rndVars>>

\* on_message, lines 487-494: the log entries, and the handler returns
NetEnd ==
    /\ net_pc = "logging"
    /\ logged' = data_log(args, store)
    /\ escaped' = FALSE
    /\ net_pc' = "idle" /\ upd_data' = JNull /\ pre' = JNull
    /\ cuts' = IF rd_pc = "sleep" THEN cuts ELSE cuts \cup {SharedView}
    /\ UNCHANGED <<ctlVars, sessVars, cntVars, outVars, histVars, args, store,
                   upd_k, rd_pc, snap, renders>>

\* display_loop, line 374, and render_display, lines 285-304: the status
\* badge and the counters
RenderBegin ==
    /\ rd_pc = "sleep"
    /\ display_running
    /\ renders < MaxRenders
    /\ snap' = [counters |-> SharedView.counters,
                prices |-> [i \in Instruments |-> JNull],
                drilling |-> JNull, well_permits |-> JNull]
    /\ cuts' = {IF net_pc = "idle" THEN SharedView ELSE pre}
    /\ rd_pc' = "brent"
    /\ UNCHANGED <<ctlVars, sessVars, cntVars, outVars, histVars, args, store, logged,
                   escaped, netVars, renders>>

\* the display thread's position after the line that shows instrument i
AfterQuote(i) ==
    CASE i = "brent" -> "wti"
      [] i = "wti" -> "natgas_us"
      [] i = "natgas_us" -> "natgas_uk"
      [] OTHER -> "drilling"

\* render_display, lines 311-314: prices[i] is fetched and formatted
RenderQuote(i) ==
    /\ rd_pc = i
    /\ snap' = [snap EXCEPT !.prices[i] = store.prices[i]]
    /\ rd_pc' = AfterQuote(i)
    /\ UNCHANGED <<ctlVars, sessVars, cntVars, outVars, histVars, args, store, logged,
                   escaped, netVars, renders, cuts>>

\* render_display, lines 318-329
RenderDrilling ==
    /\ rd_pc = "drilling"
    /\ snap' = [snap EXCEPT !.drilling = store.drilling]
    /\ rd_pc' = "permits"
    /\ UNCHANGED <<ctlVars, sessVars, cntVars, outVars, histVars, args, store, logged,
                   escaped, netVars, renders, cuts>>

\* render_display, lines 332-342: read only with --all
RenderPermits ==
    /\ rd_pc = "permits"
    /\ snap' = IF args.all THEN [snap EXCEPT !.well_permits = store.well_permits]
               ELSE snap
    /\ rd_pc' = "footer"
    /\ UNCHANGED <<ctlVars, sessVars, cntVars, outVars, histVars, args, store, logged,
                   escaped, netVars, renders, cuts>>

\* render_display, lines 345-369: the screen is written
RenderEnd ==
    /\ rd_pc = "footer"
    /\ rd_pc' = "written"
    /\ UNCHANGED <<ctlVars, sessVars, cntVars, outVars, histVars, args, store, logged,
                   escaped, netVars, snap, renders, cuts>>

\* display_loop, line 376
RenderSleep ==
    /\ rd_pc = "written"
    /\ rd_pc' = "sleep"
    /\ renders' = renders + 1
    /\ snap' = JNull /\ cuts' = {}
    /\ UNCHANGED <<ctlVars, sessVars, cntVars, outVars, histVars, args, store, logged,
                   escaped, netVars>>

\* one open connection, the display thread started by start_display()
RenderInit ==
    /\ MergeInit
    /\ display_running

RenderNext ==
    \/ \E f \in RenderFrames : NetBegin(f)
    \/ NetCount
    \/ NetStmt
    \/ NetEnd
    \/ RenderBegin
    \/ \E i \in Instruments : RenderQuote(i)
    \/ RenderDrilling
    \/ RenderPermits
    \/ RenderEnd
    \/ RenderSleep

SpecRender == RenderInit /\ [][RenderNext]_vars

(***************************************************************************)
(* The handler on its own: one open connection receiving frames of every   *)
(* kind                                                                    *)
(***************************************************************************)
\* frames delivered to the one connection
MaxHandled == 2

\* an update whose by_state has equal counts, and a state with no data
TiesUpdate ==
    Frame(260, O("message", JObj(<<
        <<"prices", O("oil", O("brent", O("original_price", JNum(8100))))>>,
        <<"drilling_intelligence", O("well_permits", O("by_state", JObj(<<
            <<"OK", O("count_7d", JNum(5000))>>,
            <<"TX", O("count_7d", JNum(8000))>>,
            <<"ND", O("count_7d", JNum(5000))>>,
            <<"NM", JObj(<<>>)>> >>)))>> >>)))

\* an update whose by_state block has no state in it
EmptyStatesUpdate ==
    Frame(200, O("message", JObj(<<
        <<"prices", O("oil", O("brent", O("original_price", JNum(8200))))>>,
        <<"drilling_intelligence", O("well_permits", JObj(<<
            <<"summary", JObj(<< <<"total_permits_7d", JNum(0)>>,
                                 <<"total_permits_30d", JNum(30000)>>,
                                 <<"active_states", JNum(0)>> >>)>>,
            <<"by_state", JObj(<<>>)>> >>))>> >>)))

\* an update with drilling metrics and no prices
DrillOnlyUpdate ==
    Frame(150, O("message", O("drilling_intelligence", O("rig_counts", JObj(<<
        <<"us_rigs", O("value", JNum(58500))>>,
        <<"canada_rigs", O("value", JNum(12000))>> >>)))))

\* an update with prices and with drilling metrics of which one has no value
\* and one has the value 0
DrillPartialUpdate ==
    Frame(220, O("message", JObj(<<
        <<"prices", O("oil", O("brent", O("original_price", JNum(8300))))>>,
        <<"drilling_intelligence", JObj(<<
            <<"rig_counts", JObj(<< <<"us_rigs", O("value", JNull)>>,
                                    <<"canada_rigs", O("value", JNum(13000))>> >>)>>,
            <<"frac_spreads", O("permian", O("value", JNum(0)))>> >>)>> >>)))

\* an update whose rig_counts is a string: rc.get raises once the price is
\* merged
BadDrillUpdate ==
    Frame(110, O("message", JObj(<<
        <<"prices", O("oil", O("brent", O("original_price", JNum(8400))))>>,
        <<"drilling_intelligence", O("rig_counts", JStr("n/a"))>> >>)))

\* {"message": "hello"}: a message field that is not an object
TextMessageFrame == Frame(20, O("message", JStr("hello")))

\* {"event": "x"}: an object with no type and no message
BareFrame == Frame(14, O("event", JStr("x")))

HandlerFrames ==
    {WelcomeFrame, UpdateFrame, FullUpdate, TiesUpdate, EmptyStatesUpdate,
     DrillOnlyUpdate, DrillPartialUpdate, BadDrillUpdate, RejectFrame, MalformedFrame,
     ArrayFrame,
     TextMessageFrame, BareFrame}

HandlerNext == \E f \in HandlerFrames : ReceivedUpTo(f, MaxHandled)

SpecHandler == MergeInit /\ [][HandlerNext]_vars

(***************************************************************************)
(* The price resolution on its own: updates for one instrument whose price *)
(* takes every shape                                                       *)
(***************************************************************************)
\* updates delivered to the one connection
MaxExtracts == 2

\* an original or normalized price field: absent, a number, a Money dict, a
\* Money dict without cents, a string
FieldShapes(number, cents) ==
    {NoPrice, JNum(number), O("cents", JNum(cents)),
     O("currency_iso", JStr("USD")), JStr("n/a")}

\* {"code": ..., "original_price": o, "normalized_price": n}
PriceOf(o, n) ==
    JObj(<< <<"code", JStr("BRENT_CRUDE_USD")>> >>
         \o (IF o = NoPrice THEN <<>> ELSE << <<"original_price", o>> >>)
         \o (IF n = NoPrice THEN <<>> ELSE << <<"normalized_price", n>> >>))

PriceShapes ==
    {PriceOf(o, n) : o \in FieldShapes(8000, 723400),
                     n \in FieldShapes(310, 31000) \ {JStr("n/a")}}

ExtractFrames == {OilUpdate(p, NoPrice) : p \in PriceShapes}

ExtractNext == \E f \in ExtractFrames : ReceivedUpTo(f, MaxExtracts)

SpecExtract == MergeInit /\ [][ExtractNext]_vars

(***************************************************************************)
(* on_open statement by statement, on an attempt that has just started     *)
(***************************************************************************)
\* mutant: the subscribe command is sent before the globals are set
on_open_order_send_first ==
    <<"send_subscribe", "reset_attempts", "stamp_start", "set_connected",
      "log_connected", "log_subscribing">>

\* lines 505, 506, 507, 509, 510, 512-515
on_open_order ==
    <<"reset_attempts", "stamp_start", "set_connected", "log_connected",
      "log_subscribing", "send_subscribe">>

\* run_websocket() has just been entered: the first attempt, or the attempt
\* after n consecutive failures, before or after a first connection was open
OpenInit ==
    /\ pc = "run_forever"
    /\ reconnect_attempts \in 0 .. MAX_RECONNECT_ATTEMPTS
    /\ depth = reconnect_attempts + 1
    /\ open_sockets = 1 /\ handshaken = FALSE /\ subscribes = 0
    /\ cancelled = FALSE /\ kbi_depth = 0
    /\ connection_start_time \in (IF reconnect_attempts = 0 THEN {JNull} ELSE {JNull, Now})
    /\ connection_status = "connecting"
    /\ message_count = 0 /\ bytes_received = 0 /\ ping_count = 0
    /\ last_ping_time = JNull
    /\ args \in ArgsSet
    /\ display_running = ~args.scroll
    /\ store = InitStore
    /\ logged = <<LogEntry("Connecting", "info")>>
                \o (IF args.verbose
                       THEN <<LogEntry("Protocol", "info"), LogEntry("Python", "info")>>
                       ELSE <<>>)
    /\ escaped = FALSE
    /\ exit_status = "running" /\ exports = 0 /\ final_stats = 0
    /\ received = <<>>
    /\ delays = [i \in 1 .. reconnect_attempts |-> backoff_delay(i)]
    /\ fails = reconnect_attempts
    /\ sleep_delay = (IF reconnect_attempts = 0 THEN 0 ELSE backoff_delay(reconnect_attempts))
    /\ closed_normally = FALSE /\ retried_after_cancel = FALSE
    /\ net_pc = "idle" /\ upd_data = JNull /\ upd_k = 0 /\ pre = JNull
    /\ rd_pc = "sleep" /\ snap = JNull /\ renders = 0 /\ cuts = {}

\* the handshake completes and run_forever() calls on_open
OpenBegin ==
    /\ pc = "run_forever" /\ ~handshaken /\ net_pc = "idle"
    /\ handshaken' = TRUE
    /\ net_pc' = "opening" /\ upd_k' = 1
    /\ logged' = <<>>
    /\ delays' = <<>> /\ fails' = 0
    /\ UNCHANGED <<pc, depth, open_sockets, subscribes, cancelled, kbi_depth, sessVars,
                   cntVars, outVars, sleep_delay, closed_normally, retried_after_cancel,
                   args, store, escaped, upd_data, pre, rndVars>>

\* on_open: its next statement
OpenStmt ==
    /\ net_pc = "opening"
    /\ LET e == on_open_order[upd_k]
       IN  /\ reconnect_attempts' = IF e = "reset_attempts" THEN 0 ELSE reconnect_attempts
           /\ connection_start_time' =
                 IF e = "stamp_start" THEN Now ELSE connection_start_time
           /\ connection_status' =
                 IF e = "set_connected" THEN "connected" ELSE connection_status
           /\ logged' = IF e = "log_connected"
                           THEN Append(logged, LogEntry("Connected!", "info"))
                        ELSE IF e = "log_subscribing"
                           THEN Append(logged, LogEntry("Subscribing", "info"))
                        ELSE logged
           /\ subscribes' = IF e = "send_subscribe" THEN subscribes + 1 ELSE subscribes
    /\ IF upd_k < Len(on_open_order)
       THEN upd_k' = upd_k + 1 /\ UNCHANGED net_pc
       ELSE upd_k' = 0 /\ net_pc' = "idle"
    /\ UNCHANGED <<pc, depth, open_sockets, handshaken, cancelled, kbi_depth, cntVars,
                   outVars, histVars, args, store, escaped, upd_data, pre, rndVars>>

OpenNext == OpenBegin \/ OpenStmt

SpecOpen == OpenInit /\ [][OpenNext]_vars

(***************************************************************************)
(* The change percentage on its own: updates for one instrument whose      *)
(* change fields take every shape                                          *)
(***************************************************************************)
\* updates delivered to the one connection
MaxChanges == 2

\* {"original_price": 80, "change_24h_percent": primary, "change_percent": legacy}
ChangeOf(primary, legacy) ==
    JObj(<< <<"original_price", JNum(8000)>> >>
         \o (IF primary = NoPrice THEN <<>> ELSE << <<"change_24h_percent", primary>> >>)
         \o (IF legacy = NoPrice THEN <<>> ELSE << <<"change_percent", legacy>> >>))

\* the primary key absent, a number, 0, NaN, a string; the legacy key absent,
\* a number, 0
ChangeShapes ==
    {ChangeOf(primary, legacy) :
        primary \in {NoPrice, JNum(150), JNum(0), JNaN, JStr("n/a")},
        legacy \in {NoPrice, JNum(-50), JNum(0)}}

ChangeFrames == {OilUpdate(p, NoPrice) : p \in ChangeShapes}

ChangeNext == \E f \in ChangeFrames : ReceivedUpTo(f, MaxChanges)

SpecChange == MergeInit /\ [][ChangeNext]_vars

(***************************************************************************)
(* Properties of the session (checked under Spec)                          *)
(***************************************************************************)
BackoffSchedule == <<1, 2, 4, 8, 16>>

\* C1: consecutive abnormal closes with no open in between produce the
\* delays 1, 2, 4, 8, 16 in that order, reconnect_attempts growing by one per
\* delay, and the 6th one gives up instead of sleeping
C1_BackoffSequence ==
    /\ fails <= MAX_RECONNECT_ATTEMPTS + 1
    /\ Len(delays) = (IF fails <= MAX_RECONNECT_ATTEMPTS THEN fails
                      ELSE MAX_RECONNECT_ATTEMPTS)
    /\ delays = SubSeq(BackoffSchedule, 1, Len(delays))
    /\ reconnect_attempts = Len(delays)
    /\ (fails = MAX_RECONNECT_ATTEMPTS + 1) <=> (pc \in {"exiting", "exited"})

C1_Witness ==
    /\ pc = "exited" /\ fails = 6
    /\ delays = <<1, 2, 4, 8, 16>>

\* C2: once on_close(1000) has been processed no run_websocket() attempt
\* starts, reconnect_attempts stays what it was before the close, no socket
\* is open and the main thread only unwinds
C2_NormalCloseEndsSession ==
    [][closed_normally' =>
          /\ depth' <= depth
          /\ reconnect_attempts' = reconnect_attempts
          /\ open_sockets' = 0
          /\ connection_status' = "disconnected"
          /\ pc' \in {"returning", "done", "raising", "interrupted"}]_vars

\* ... reached for a connection opened by a reconnect
C2_Witness == closed_normally /\ pc = "returning" /\ depth >= 2

\* C3: a close that is not a 1000 close and a transport error (before or
\* after the handshake) both end in handle_reconnect: a backoff sleep with
\* the counter incremented while the budget lasts, SystemExit otherwise; and
\* a backoff sleep ends in a new attempt unless the KeyboardInterrupt ends it
C3_FailureHandedToPolicy ==
    [][/\ (open_sockets' < open_sockets /\ ~closed_normally')
            => IF reconnect_attempts < MAX_RECONNECT_ATTEMPTS
               THEN pc' = "sleep" /\ reconnect_attempts' = reconnect_attempts + 1
               ELSE pc' = "exiting"
       /\ (pc = "errored" => open_sockets' < open_sockets)
       /\ (pc = "sleep" /\ pc' # "sleep")
            => \/ /\ pc' = "run_forever" /\ depth' = depth + 1
                  /\ connection_status' = "connecting"
               \/ ~cancelled /\ cancelled']_vars

\* ... a second attempt running though no connection was ever opened
C3_Witness ==
    /\ pc = "run_forever" /\ depth = 2
    /\ connection_start_time = JNull
    /\ reconnect_attempts = 1

\* C4: the step in which a connection opens leaves reconnect_attempts at 0
C4_OpenResetsAttempts ==
    [][(~handshaken /\ handshaken') => reconnect_attempts' = 0]_vars

\* ... a connection opened by a reconnect, that is with the counter at 1 or more
C4_Witness ==
    /\ handshaken /\ depth >= 2
    /\ connection_status = "connected" /\ reconnect_attempts = 0

\* C5: an abnormal close with the budget used up stops the display, exports
\* the log when --export is given, starts no attempt and no sleep, and the
\* process ends with status 1
C5_GiveUp ==
    [][/\ (open_sockets' < open_sockets /\ ~closed_normally'
           /\ reconnect_attempts >= MAX_RECONNECT_ATTEMPTS)
            => /\ pc' = "exiting"
               /\ ~display_running'
               /\ exports' = exports + (IF args.export THEN 1 ELSE 0)
               /\ depth' = depth /\ delays' = delays /\ sleep_delay' = sleep_delay
       /\ (pc \in {"exiting", "exited"})
            => /\ pc' \in {"exiting", "exited"}
               /\ depth' <= depth /\ open_sockets' = 0
               /\ ~display_running' /\ exports' = exports /\ delays' = delays
       /\ (pc' = "exited" => exit_status' = "1")]_vars

C5_Witness ==
    /\ pc = "exited" /\ exit_status = "1"
    /\ args.export /\ exports = 1 /\ ~display_running

\* C7: at most one socket is open or being opened, and it is the one of the
\* innermost run_forever()
C7_SingleSocket ==
    /\ open_sockets \in {0, 1}
    /\ (open_sockets = 1) <=> (pc \in {"run_forever", "errored"})

\* ... for an attempt started from handle_reconnect inside on_close
C7_Witness == open_sockets = 1 /\ depth >= 2 /\ pc = "run_forever"

\* C8: once the KeyboardInterrupt is delivered no run_websocket() attempt is
\* started, and when the process ends the socket is closed, the display loop
\* is stopped and the final stats or the export have been written once
C8_CancellationStopsSession ==
    cancelled =>
        /\ ~retried_after_cancel
        /\ (pc \in {"done", "exited", "interrupted"})
              => /\ open_sockets = 0
                 /\ ~display_running

(***************************************************************************)
(* Properties of the merge (checked under SpecMerge)                       *)
(***************************************************************************)
\* the value found by following path into v, JNull when the path leaves v
RECURSIVE Dig(_, _)
Dig(v, path) ==
    IF path = <<>> THEN v
    ELSE IF IsDict(v) /\ Has(v, Head(path)) THEN Dig(Get(v, Head(path)), Tail(path))
    ELSE JNull

InstrumentPath(i) ==
    CASE i = "brent" -> <<"oil", "brent">>
      [] i = "wti" -> <<"oil", "wti">>
      [] i = "natgas_us" -> <<"natural_gas", "us">>
      [] OTHER -> <<"natural_gas", "uk">>

\* the places where a frame can carry instrument i: a streamed update's
\* message.prices or message.data.prices, a welcome's data.prices
Offers(frame, i) ==
    {Dig(frame.body, prefix \o InstrumentPath(i)) :
        prefix \in {<<"message", "prices">>, <<"message", "data", "prices">>,
                    <<"data", "prices">>}}

\* p has an original or normalized price that is a number or a Money amount
NumericPrice(p) ==
    \E key \in {"original_price", "normalized_price"} :
        \/ IsNumber(Dig(p, <<key>>))
        \/ IsNumber(Dig(p, <<key, "cents">>))

\* p has a change percentage that is a number and not NaN
AcceptableChange(p) ==
    \E key \in {"change_24h_percent", "change_percent"} : Dig(p, <<key>>).t = "num"

LastReceived == received'[Len(received')]

\* C9: an instrument for which the frame just received resolves no numeric
\* value keeps the quote it had
C9_StickyQuote ==
    [][received' # received =>
          \A i \in Instruments :
              (\A p \in Offers(LastReceived, i) : ~NumericPrice(p))
                  => store'.prices[i] = store.prices[i]]_vars

\* ... brent set to 80 by one update, then an update with wti = 70 only
C9_Witness ==
    /\ Len(received) = 2
    /\ \A p \in Offers(received[2], "brent") : ~NumericPrice(p)
    /\ \E p \in Offers(received[2], "wti") : NumericPrice(p)
    /\ store.prices["brent"].value = JNum(8000)
    /\ store.prices["wti"].value = JNum(7000)

\* C10: an instrument for which the frame just received carries no acceptable
\* change percentage keeps the change it had
C10_StickyChange ==
    [][received' # received =>
          \A i \in Instruments :
              (\A p \in Offers(LastReceived, i) : ~AcceptableChange(p))
                  => store'.prices[i].change = store.prices[i].change]_vars

(***************************************************************************)
(* Properties of the display (checked under SpecRender)                    *)
(***************************************************************************)
\* the four quotes one render has shown are the four quotes as they stood
\* between two handlers
QuotesUntorn == \E c \in cuts : c.prices = snap.prices

\* likewise the well-permit summary with top_states and last_updated
PermitsUntorn == args.all => \E c \in cuts : c.well_permits = snap.well_permits

\* likewise the counters with the status
CountersUntorn == \E c \in cuts : c.counters = snap.counters

\* C6: what one render has read of the four quotes, of the well permits and
\* of the counters is each time what those fields were before or after one
\* whole update, never a mixture, under every interleaving
C6_NoTornRender ==
    rd_pc = "written" => QuotesUntorn /\ PermitsUntorn /\ CountersUntorn

C6_QuotesOnly == rd_pc = "written" => QuotesUntorn

C6_PermitsOnly == rd_pc = "written" => PermitsUntorn

\* the statement-by-statement handler leaves what the handler as a whole does
StepwiseAgrees ==
    (net_pc = "idle" /\ Len(received) = 1) =>
        LET r == on_message([store |-> InitStore, message_count |-> 0,
                             bytes_received |-> 0, ping_count |-> 0,
                             last_ping_time |-> JNull,
                             logged |-> <<>>, escaped |-> FALSE], args, received[1])
        IN  /\ store = r.store
            /\ message_count = r.message_count
            /\ bytes_received = r.bytes_received
            /\ logged = r.logged

(***************************************************************************)
(* Properties of the message handler within a session (checked under Spec) *)
(***************************************************************************)
\* the three module-level dicts
Market(st) == <<st.prices, st.drilling, st.well_permits>>

\* the session is where it was: connected, the socket open, the main thread
\* inside run_forever(), no attempt started and the budget untouched
SessionGoesOn ==
    /\ connection_status' = "connected"
    /\ pc' = "run_forever" /\ depth' = depth
    /\ open_sockets' = open_sockets /\ handshaken'
    /\ reconnect_attempts' = reconnect_attempts
    /\ delays' = delays

\* C11: a frame that is not valid JSON leaves the session going, leaves
\* message_count and the market state as they were, and is logged as an error
C11_MalformedIsHarmless ==
    [][(received' # received /\ LastReceived.body = Malformed) =>
          /\ SessionGoesOn
          /\ message_count' = message_count
          /\ Market(store') = Market(store)
          /\ ~escaped'
          /\ \E i \in DOMAIN logged' : logged'[i][2] = "error"]_vars

\* ... a malformed frame has been handled on an open connection
C11_Witness ==
    /\ received # <<>> /\ received[Len(received)] = MalformedFrame
    /\ connection_status = "connected" /\ pc = "run_forever"
    /\ message_count = 0
    /\ logged[1] = LogEntry("Failed to parse message", "error")

\* C16: connection_status changes only from disconnected to connecting when
\* an attempt starts, from connecting to connected in on_open, and from
\* connecting or connected to disconnected when the connection is closed;
\* and it is disconnected during every backoff sleep
C16_StatusTransitions ==
    [][/\ connection_status' # connection_status =>
            \/ /\ connection_status = "disconnected" /\ connection_status' = "connecting"
               /\ depth' = depth + 1
            \/ /\ connection_status = "connecting" /\ connection_status' = "connected"
               /\ ~handshaken /\ handshaken'
            \/ /\ connection_status \in {"connecting", "connected"}
               /\ connection_status' = "disconnected"
               /\ open_sockets' < open_sockets
       /\ pc' = "sleep" => connection_status' = "disconnected"]_vars

\* ... a backoff sleep after a connection that had been open
C16_Witness ==
    /\ pc = "sleep" /\ depth >= 2
    /\ connection_start_time = Now
    /\ connection_status = "disconnected"

IsReject(frame) ==
    IsDict(frame.body) /\ Get(frame.body, "type") = JStr("reject_subscription")

\* C18: a reject_subscription frame leaves the session going, connected with
\* its socket open and no attempt started, leaves reconnect_attempts and the
\* market state as they were, and is logged
C18_RejectIsNonFatal ==
    [][(received' # received /\ IsReject(LastReceived)) =>
          /\ SessionGoesOn
          /\ Market(store') = Market(store)
          /\ ~escaped'
          /\ \E i \in DOMAIN logged' :
                logged'[i] = LogEntry("Subscription REJECTED", "error")]_vars

\* ... a rejection has been handled on an open connection
C18_Witness ==
    /\ received # <<>> /\ IsReject(received[Len(received)])
    /\ connection_status = "connected" /\ pc = "run_forever" /\ open_sockets = 1
    /\ logged[1] = LogEntry("Subscription REJECTED", "error")

\* the longest delay of the schedule
MaxDelay == RECONNECT_BASE_DELAY_SEC * Pow2(MAX_RECONNECT_ATTEMPTS - 1)

\* C23: reconnect_attempts stays within 0 .. MAX_RECONNECT_ATTEMPTS, a delay
\* is computed only with reconnect_attempts within 1 .. MAX_RECONNECT_ATTEMPTS,
\* and no delay exceeds RECONNECT_BASE_DELAY_SEC * 2^(MAX_RECONNECT_ATTEMPTS - 1)
C23_AttemptsBounded ==
    /\ reconnect_attempts \in 0 .. MAX_RECONNECT_ATTEMPTS
    /\ sleep_delay <= MaxDelay
    /\ \A i \in DOMAIN delays : delays[i] <= MaxDelay
    /\ pc = "sleep" => /\ reconnect_attempts \in 1 .. MAX_RECONNECT_ATTEMPTS
                       /\ sleep_delay = backoff_delay(reconnect_attempts)

\* the last retry of the budget is sleeping its delay, the longest one
C23_Witness ==
    /\ pc = "sleep"
    /\ reconnect_attempts = MAX_RECONNECT_ATTEMPTS
    /\ sleep_delay = MaxDelay

\* C24: the run_websocket invocations started and not yet returned never
\* number more than MAX_RECONNECT_ATTEMPTS + 1
C24_BoundedNesting == depth <= MAX_RECONNECT_ATTEMPTS + 1

\* the entries of log that on_close writes itself, those of handle_reconnect
\* left out
CloseEntries(log) ==
    {i \in DOMAIN log : log[i][1] \in {"Connection closed", "Check API key and tier level"}}

\* C22: the step that starts an attempt, the one that opens a connection,
\* the one that closes it and the one that reports an error each append
\* exactly one entry to the log
C22_OneEntryPerEvent ==
    [][/\ depth' = depth + 1 => Len(logged') = 1
       /\ (~handshaken /\ handshaken') => Len(logged') = 1
       /\ open_sockets' < open_sockets => Cardinality(CloseEntries(logged')) = 1
       /\ (pc # "errored" /\ pc' = "errored") => Len(logged') = 1]_vars

\* an error is logged once, and so is a close with a code other than 4001,
\* 4003 and 1006
ErrorsLoggedOnce ==
    [][/\ (pc # "errored" /\ pc' = "errored") => Len(logged') = 1
       /\ escaped' /\ received' # received => Len(logged') = 1
       /\ (open_sockets' < open_sockets
           /\ \A i \in DOMAIN logged' : logged'[i][1] # "Check API key and tier level")
             => Cardinality(CloseEntries(logged')) = 1]_vars

\* what the program logs when a connection opens, and when an attempt starts
\* with --verbose
OpenLogsTwice ==
    [][/\ (~handshaken /\ handshaken') => Len(logged') = 2
       /\ depth' = depth + 1 => Len(logged') = (IF args.verbose THEN 3 ELSE 1)]_vars

(***************************************************************************)
(* Properties of the handler (checked under SpecHandler)                   *)
(***************************************************************************)
IsWelcome(frame) == IsDict(frame.body) /\ Get(frame.body, "type") = JStr("welcome")

\* a frame with no recognised type and a message field
IsDataUpdate(frame) ==
    /\ IsDict(frame.body)
    /\ Get(frame.body, "type") \notin
           {JStr("ping"), JStr("welcome"), JStr("confirm_subscription"),
            JStr("reject_subscription")}
    /\ Has(frame.body, "message")

\* C12: a welcome leaves message_count as it was, a data update adds one to
\* it, and the welcome with brent 80.5 followed by the update with wti 7010
\* cents leaves brent 80.5, wti 70.10 and message_count 1
C12_WelcomeNotCounted ==
    [][received' # received =>
          /\ IsWelcome(LastReceived) => message_count' = message_count
          /\ (IsDataUpdate(LastReceived) /\ ~escaped')
                => message_count' = message_count + 1
          /\ received' = <<WelcomeFrame, UpdateFrame>>
                => /\ store'.prices["brent"].value = JNum(8050)
                   /\ store'.prices["wti"].value = JNum(7010)
                   /\ message_count' = 1]_vars

\* what the program does with that welcome and that update: the prices are
\* the expected ones and both frames are counted
WelcomeIsCounted ==
    received = <<WelcomeFrame, UpdateFrame>> =>
        /\ store.prices["brent"].value = JNum(8050)
        /\ store.prices["wti"].value = JNum(7010)
        /\ message_count = 2

\* the well_permits blocks a frame carries: in a streamed update's message
\* or message.data, in a welcome's data
PermitsBlocks(frame) ==
    {Dig(frame.body, prefix \o <<"drilling_intelligence", "well_permits">>) :
        prefix \in {<<"message">>, <<"message", "data">>, <<"data">>}}

\* the by_state blocks a frame carries
CarriedStates(frame) ==
    {Get(wp, "by_state") : wp \in {w \in PermitsBlocks(frame) : IsDict(w) /\ Has(w, "by_state")}}

\* the 7-day count a by_state block gives for its j-th state (0 when none)
CountIn(b, j) ==
    LET c == Dig(b.kv[j][2], <<"count_7d">>) IN IF c = JNull THEN JNum(0) ELSE c

\* where state name s stands in block b
PlaceIn(b, s) == CHOOSE j \in DOMAIN b.kv : b.kv[j][1] = s

\* ts lists exactly the states of block b with their counts, by count
\* descending, states of equal count in the order of the block
ListsBlockSorted(ts, b) ==
    /\ Len(ts) = Len(b.kv)
    /\ \A j \in DOMAIN b.kv : \E i \in DOMAIN ts : ts[i] = <<b.kv[j][1], CountIn(b, j)>>
    /\ \A i, j \in DOMAIN ts :
          i < j => \/ ts[i][2].n > ts[j][2].n
                   \/ /\ ts[i][2].n = ts[j][2].n
                      /\ PlaceIn(b, ts[i][1]) < PlaceIn(b, ts[j][1])

\* C13: after an update that carries a by_state block, top_states is exactly
\* the states of that block, by count_7d descending, ties in block order
C13_TopStatesOfBlock ==
    [][received' # received =>
          \A b \in CarriedStates(LastReceived) :
              IsDict(b) => ListsBlockSorted(store'.well_permits.top_states, b)]_vars

\* the same for the blocks that have at least one state in them
TopStatesOfNonEmptyBlock ==
    [][received' # received =>
          \A b \in CarriedStates(LastReceived) :
              (IsDict(b) /\ b.kv # <<>>)
                  => ListsBlockSorted(store'.well_permits.top_states, b)]_vars

\* the block with equal counts has been sorted over a previous list
TiesSortedReached ==
    /\ received = <<FullUpdate, TiesUpdate>>
    /\ store.well_permits.top_states =
          << <<"TX", JNum(8000)>>, <<"OK", JNum(5000)>>, <<"ND", JNum(5000)>>,
             <<"NM", JNum(0)>> >>

\* the payloads the frames hand to update_prices, and those of the updates
\* without prices
Payloads ==
    {Get(WelcomeFrame.body, "data")}
    \cup {Get(f.body, "message") :
            f \in {UpdateFrame, FullUpdate, TiesUpdate, EmptyStatesUpdate,
                   DrillOnlyUpdate, DrillPartialUpdate, BadDrillUpdate}}

\* C14: whatever the store holds, update_prices applied twice to a payload
\* leaves the prices, the drilling values, the well-permit summary and
\* top_states as update_prices applied once leaves them
C14_Idempotent ==
    \A d \in Payloads :
        LET once == update_prices(store, d)
        IN  Market(update_prices(once, d)) = Market(once)

\* ... the same full update received twice in a row
C14_Witness ==
    /\ received = <<FullUpdate, FullUpdate>>
    /\ store.drilling["rig_us"].value = JNum(58000)
    /\ store.well_permits.top_states = << <<"TX", JNum(8000)>>, <<"ND", JNum(4000)>> >>

(***************************************************************************)
(* Properties of the price resolution (checked under SpecExtract)          *)
(***************************************************************************)
\* a number of cents as a number of units
Units(cents) == JNum(cents.n \div 100)

\* the value of price p by the precedence: numeric original_price, else
\* original_price.cents / 100, else numeric normalized_price, else
\* normalized_price.cents / 100, else none
Resolved(p) ==
    IF Dig(p, <<"original_price">>).t = "num" THEN Dig(p, <<"original_price">>)
    ELSE IF Dig(p, <<"original_price", "cents">>).t = "num"
         THEN Units(Dig(p, <<"original_price", "cents">>))
    ELSE IF Dig(p, <<"normalized_price">>).t = "num" THEN Dig(p, <<"normalized_price">>)
    ELSE IF Dig(p, <<"normalized_price", "cents">>).t = "num"
         THEN Units(Dig(p, <<"normalized_price", "cents">>))
    ELSE JNull

\* the price the frame carries for brent
BrentOf(frame) == Dig(frame.body, <<"message", "prices", "oil", "brent">>)

\* C15: the value merged for an instrument is the one the precedence gives
\* for its price, and without one the quote stays; {cents: 7234} gives 72.34
C15_PricePrecedence ==
    /\ \A p \in PriceShapes : extract_price_value(p) = Resolved(p)
    /\ extract_price_value(O("original_price", O("cents", JNum(723400)))) = JNum(7234)
    /\ received # <<>> =>
          LET p == BrentOf(received[Len(received)])
          IN  Resolved(p) # JNull => store.prices["brent"].value = Resolved(p)

\* ... a Money original price merged though a normalized number came with it
C15_Witness ==
    /\ received # <<>>
    /\ BrentOf(received[Len(received)]) = PriceOf(O("cents", JNum(723400)), JNum(310))
    /\ store.prices["brent"].value = JNum(7234)

(***************************************************************************)
(* Properties of on_open (checked under SpecOpen)                          *)
(***************************************************************************)
\* C17: in on_open the counter is reset before the start time is set, the
\* start time is set before the status becomes connected, the status is
\* connected before the subscribe command is sent; one subscribe command is
\* sent per connection opened, and none before on_open
C17_OpenOrder ==
    [][/\ connection_start_time' # connection_start_time => reconnect_attempts = 0
       /\ connection_status' # connection_status =>
             /\ connection_status' = "connected"
             /\ reconnect_attempts = 0 /\ connection_start_time = Now
       /\ subscribes' # subscribes =>
             /\ subscribes = 0 /\ subscribes' = 1
             /\ connection_status = "connected"
             /\ reconnect_attempts = 0 /\ connection_start_time = Now
       /\ (net_pc' = "idle" /\ handshaken') => subscribes' = 1
       /\ ~handshaken' => subscribes' = 0]_vars

\* ... on_open has returned on a first connection made after failed attempts
C17_Witness ==
    /\ handshaken /\ net_pc = "idle" /\ depth >= 2
    /\ reconnect_attempts = 0 /\ connection_start_time = Now
    /\ connection_status = "connected" /\ subscribes = 1

\* on_open statement by statement ends where on_open as one step ends
OpenStepwiseAgrees ==
    (handshaken /\ net_pc = "idle") =>
        /\ reconnect_attempts = 0 /\ connection_start_time = Now
        /\ connection_status = "connected" /\ subscribes = 1
        /\ logged = <<LogEntry("Connected!", "info"), LogEntry("Subscribing", "info")>>

\* C19: a frame that parses, whatever its shape, is handled without an
\* exception leaving on_message, and the connection stays connected
C19_NoErrorEscapes ==
    [][(received' # received /\ LastReceived.body # Malformed) =>
          /\ ~escaped'
          /\ connection_status' = "connected"]_vars

\* the frames that parse to an object whose message, if any, is an object
\* are handled without an exception leaving on_message, merge errors included
ObjectFramesHandled ==
    [][(received' # received /\ IsDict(LastReceived.body)
        /\ (Has(LastReceived.body, "message")
               => IsDict(Get(LastReceived.body, "message")))) => ~escaped']_vars

\* where a drilling_intelligence block carries the metric stored under k
DrillingPath(k) ==
    CASE k = "rig_us" -> <<"rig_counts", "us_rigs">>
      [] k = "rig_canada" -> <<"rig_counts", "canada_rigs">>
      [] k = "rig_intl" -> <<"rig_counts", "international_rigs">>
      [] k = "frac_permian" -> <<"frac_spreads", "permian">>
      [] k = "frac_eagle_ford" -> <<"frac_spreads", "eagle_ford">>
      [] k = "frac_bakken" -> <<"frac_spreads", "bakken">>
      [] k = "duc_permian" -> <<"duc_wells", "permian">>
      [] k = "duc_eagle_ford" -> <<"duc_wells", "eagle_ford">>
      [] OTHER -> <<"duc_wells", "bakken">>

\* the value a data update supplies for metric k, JNull when it supplies none
SuppliedMetric(frame, k) ==
    Dig(frame.body, <<"message", "drilling_intelligence">> \o DrillingPath(k) \o <<"value">>)

\* metric k after the frame: the value supplied, the value it had when none
\* is supplied, and the label it had
MetricMerged(frame, k) ==
    /\ store'.drilling[k].label = store.drilling[k].label
    /\ store'.drilling[k].value =
          IF SuppliedMetric(frame, k) # JNull THEN SuppliedMetric(frame, k)
          ELSE store.drilling[k].value

\* C20: after a data update each drilling metric has the value the update
\* supplies for it, or the value it had when the update supplies none, with
\* or without a prices block in the update; labels never change
C20_DrillingMerged ==
    [][(received' # received /\ IsDataUpdate(LastReceived)) =>
          \A k \in DrillingKeys : MetricMerged(LastReceived, k)]_vars

\* the same for the updates that carry a prices block
DrillingMergedWithPrices ==
    [][(received' # received /\ IsDataUpdate(LastReceived)
        /\ Truthy(Dig(LastReceived.body, <<"message", "prices">>))) =>
          \A k \in DrillingKeys : MetricMerged(LastReceived, k)]_vars

\* metrics merged over earlier ones: a value kept, one replaced, one set to 0
PartialDrillReached ==
    /\ received = <<FullUpdate, DrillPartialUpdate>>
    /\ store.drilling["rig_us"].value = JNum(58000)
    /\ store.drilling["rig_canada"].value = JNum(13000)
    /\ store.drilling["frac_permian"].value = JNum(0)

(***************************************************************************)
(* Properties of the change percentage (checked under SpecChange)          *)
(***************************************************************************)
\* the change of price p: what the primary key holds when p has that key,
\* what the legacy key holds when p has not, and nothing when that is not a
\* number or is NaN
ExpectedChange(p) ==
    LET held == IF Has(p, "change_24h_percent") THEN Get(p, "change_24h_percent")
                ELSE Get(p, "change_percent")
    IN  IF held.t = "num" THEN held ELSE JNull

\* C21: the change merged with a price is the primary key's number, 0
\* included, the legacy key's only when the primary key is absent, and
\* nothing when that is no number or NaN
C21_ChangePrecedence ==
    received # <<>> =>
        store.prices["brent"].change = ExpectedChange(BrentOf(received[Len(received)]))

\* the same for the prices whose primary key does not hold 0
ChangePrecedenceNonZero ==
    (received # <<>>
     /\ Get(BrentOf(received[Len(received)]), "change_24h_percent") # JNum(0)) =>
        store.prices["brent"].change = ExpectedChange(BrentOf(received[Len(received)]))

\* what the program makes of a primary key holding 0: the legacy value
\* when there is one, else nothing
ZeroChangeIsDropped ==
    /\ extract_change_percent(ChangeOf(JNum(0), NoPrice)) = JNull
    /\ extract_change_percent(ChangeOf(JNum(0), JNum(-50))) = JNum(-50)

=============================================================================
